---- MODULE Spec2Model ----
(***************************************************************************)
(* Resource lifecycle of LlamacppGenerativeAIWorkerConnector (the          *)
(* multi-sequence revision): the static model registry, the static         *)
(* embedding context, initialize / close of a connector and the sync and   *)
(* streaming jobs, cut at the awaits of the code.  JavaScript runs one     *)
(* continuation at a time: `cpu` names the operation that is running       *)
(* synchronously, and is "none" exactly while every operation is parked    *)
(* at an await (or idle).                                                  *)
(***************************************************************************)
EXTENDS Integers, Sequences, FiniteSets, TLC

\* ---------------------------------------------------------------- bounds
MaxObjs    == 3    \* model records ({pathName, outputType, model, workflows}) ever created
MaxHandles == 3    \* engine model handles ever loaded
MaxCtxs    == 2    \* engine contexts ever created
MaxEmbs    == 2    \* engine embedding contexts ever created
MaxChunks  == 1    \* text chunks one streamed generation emits
MaxInits   == 2    \* initialize calls the hosting runtime makes
MaxCloses  == 1    \* close calls the hosting runtime makes
MaxJobRuns == 2    \* jobs the hosting runtime issues
MaxFunctions == 2  \* entries of parameters.functions
MaxOtherTokens == 1  \* generations of other jobs on the same context
CHUNK_MAX_LENGTH == 2  \* characters of one chunk of a document (scaled)
MaxSentences  == 2  \* sentences of one document's content
MaxIndexCalls == 3  \* addContent, removeContent and getContext calls made
MaxHistory    == 3  \* turns of parameters.history
MaxMessageTokens == 3  \* tokens of one message of the history
MaxContextSize == 16   \* model.trainContextSize
MaxPrefixTokens == 2   \* tokens of a speaker prefix ('Human: ', 'AI: ')
MaxDims == 3           \* components of an embedding vector
MaxInstances == 3      \* contexts the single-context variant creates

\* ---------------------------------------------------------------- inputs
ModelIds  == {"t1", "t2", "v"}
Conns     == {"c1", "c2"}
Jobs      == {"j1", "j2"}
JobKinds  == {"sync", "stream"}
SeqOpts   == {1, 2}

\* modelObj.outputType / options.model.outputType as the caller passes them
OutputType(id) == IF id = "v" THEN "vector" ELSE "text"

\* job inputs: options.sequences is read on the text path only (undefined
\* there behaves as 1, both in createContext and in `options.sequences ?? 1`)
JobInputs == {in \in [kind : JobKinds, id : ModelIds, sequences : SeqOpts] :
                OutputType(in.id) = "vector" => in.sequences = 1}

\* the workflow id a connector is initialized with
WorkflowOf(c) == IF c = "c1" THEN "w1" ELSE "w2"

\* the model maps passed to initialize (keys in iteration order)
InitMaps == {<<"t1">>, <<"v">>, <<"t1", "t2">>}

VARIABLES
  models,            \* static models: id -> {model: record id, context}; obj = 0: no entry
  order,             \* insertion order of the keys of the Map `models`
  objs,              \* the ILlamacppGenerativeAIWorkerModel records, by identity
  nextObj,
  handles,           \* engine: LlamaModel instances
  nextHandle,
  ctxs,              \* engine: LlamaContext instances
  nextCtx,
  embs,              \* engine: LlamaEmbeddingContext instances
  nextEmb,
  embeddingContext,  \* static embeddingContext (0: undefined)
  files,             \* ids whose <baseFolder>/<id>.gguf exists
  conns,             \* per connector: workflowId field and the running initialize/close
  jobs,              \* per job: the processJob / processJobStream call
  calls,             \* initialize and close calls made so far
  cpu                \* the operation running synchronously, or "none"

vars == <<models, order, objs, nextObj, handles, nextHandle, ctxs, nextCtx,
          embs, nextEmb, embeddingContext, files, conns, jobs, calls, cpu>>

\* the state of the sequential parts of the connector (the configuration of
\* a generation call, the document index, the assembly of a prompt),
\* explored on their own
VARIABLES
  cfg,               \* one job's promptOptions and the generation calls it makes
  rag,               \* the document index: documents, chunks, vectorDatabase
  asm,               \* one getPrompt call: its parameters and its result
  vec,               \* one getVector call: the embedding and the vector returned
  sc                 \* the variant with one static context: the field, the
                     \* contexts created, the jobs' positions

aux == <<cfg, rag, asm, vec, sc>>

\* what the steps of one sequential part leave alone
exceptCfg == <<vars, rag, asm, vec, sc>>
exceptRag == <<vars, cfg, asm, vec, sc>>
exceptAsm == <<vars, cfg, rag, vec, sc>>

registry == <<models, order, objs, nextObj>>
engine   == <<handles, nextHandle, ctxs, nextCtx, embs, nextEmb>>

\* ------------------------------------------------------------ registry
NoEntry == [obj |-> 0, context |-> 0]

getModel(id) == models[id].obj

getContext(id) == models[id].context

\* setModel that always builds a new wrapper {model}: the cached context of
\* an existing entry is lost
setModelFresh(ms, id, o) == [ms EXCEPT ![id] = [obj |-> o, context |-> 0]]

\* models after setModel(id, o): an existing entry keeps its context
setModel(ms, id, o) ==
  [ms EXCEPT ![id] = IF ms[id].obj # 0 THEN [ms[id] EXCEPT !.obj = o]
                     ELSE [obj |-> o, context |-> 0]]

\* key order after setModel(id, _): a new key goes last
setModelOrder(ms, ord, id) == IF ms[id].obj # 0 THEN ord ELSE Append(ord, id)

\* models after setContext(id, c): only an existing entry is changed
setContext(ms, id, c) ==
  IF ms[id].obj # 0 THEN [ms EXCEPT ![id].context = c] ELSE ms

deleteModel(ms, id) == [ms EXCEPT ![id] = NoEntry]

deleteModelOrder(ord, id) == SelectSeq(ord, LAMBDA x : x # id)

\* position of a key in the Map's iteration order (0: absent)
Pos(ord, id) == IF \E p \in 1..Len(ord) : ord[p] = id
                THEN CHOOSE p \in 1..Len(ord) : ord[p] = id
                ELSE 0

\* a live Map iterator that already passed position p steps back when the
\* key at p is deleted, so that it neither skips nor repeats a key
AdjustIt(it, p) == IF p # 0 /\ it >= p THEN it - 1 ELSE it

\* ------------------------------------------------------------- engine
NoHandle == [of |-> "", disp |-> 0, by |-> {}]
NoCtx    == [handle |-> 0, cap |-> 0, inUse |-> 0, disp |-> 0]
NoEmb    == [handle |-> 0, disp |-> 0]

Bump(n) == IF n < 2 THEN n + 1 ELSE n

\* x.dispose()
Dispose(heap, x) == [heap EXCEPT ![x].disp = Bump(@)]

\* model.dispose(), with the operation that called it ("close", "evict")
DisposeHandle(hs, h, who) == [hs EXCEPT ![h].disp = Bump(@), ![h].by = @ \cup {who}]

HandleLive(h) == h # 0 /\ handles[h].of # "" /\ handles[h].disp = 0
CtxLive(c)    == c # 0 /\ ctxs[c].handle # 0 /\ ctxs[c].disp = 0
EmbLive(e)    == e # 0 /\ embs[e].handle # 0 /\ embs[e].disp = 0

\* context.sequencesLeft
sequencesLeft(cs, c) == cs[c].cap - cs[c].inUse

\* ---------------------------------------------------------- processes
NoOptions == [functions |-> 0, grammar |-> ""]

NoCfg == [pc |-> "idle", kind |-> "sync", functions |-> 0, grammar |-> "",
          reasoning |-> FALSE, promptOptions |-> NoOptions,
          call |-> "", sent |-> NoOptions,
          calls |-> <<>>, pending |-> <<>>, text |-> <<>>, thinking |-> <<>>,
          output |-> <<>>, listening |-> FALSE, rejected |-> FALSE,
          meter |-> [usedInputTokens |-> 0, usedOutputTokens |-> 0],
          others |-> [usedInputTokens |-> 0, usedOutputTokens |-> 0],
          starting |-> [usedInputTokens |-> 0, usedOutputTokens |-> 0],
          result |-> [usedInputTokens |-> 0, usedOutputTokens |-> 0]]

IdleConn == [pc |-> "idle", workflowId |-> "", maps |-> <<>>, idx |-> 0,
             it |-> 0, curId |-> "", newObj |-> 0, err |-> ""]

\* one call on the document index, as the hosting runtime sees it
NoLast == [op |-> "none", name |-> "", text |-> "", threw |-> FALSE,
           pieces |-> <<>>, failed |-> {}, stored |-> <<>>,
           hit |-> -1, maxChunks |-> 0, window |-> <<>>, from |-> ""]

NoRag == [pc |-> "off", version |-> "chunks", maxChunks |-> 0,
          similarityModel |-> FALSE, documents |-> <<>>, chunks |-> <<>>,
          vectorDatabase |-> <<>>, calls |-> 0, last |-> NoLast]

\* getPrompt before it is called
NoAsm == [pc |-> "idle", history |-> <<>>, trainContextSize |-> 0,
          preamble |-> 0, prompt |-> 0, prefix |-> 0,
          conversation |-> <<>>, conversationLength |-> 0]

IdleJob == [pc |-> "idle", kind |-> "sync", id |-> "t1", sequences |-> 1,
            modelObj |-> 0, model |-> 0, it |-> 0, evictId |-> "", evictObj |-> 0,
            context |-> 0, catchContext |-> 0, sequence |-> "none",
            session |-> "none", emb |-> 0, prod |-> "none",
            emitted |-> 0, yielded |-> 0, lost |-> 0, sentinelLost |-> FALSE,
            result |-> "", err |-> ""]

Init ==
  /\ cfg = NoCfg
  /\ rag = NoRag
  /\ asm = NoAsm
  /\ vec = [pc |-> "idle", vector |-> <<>>, out |-> <<>>]
  /\ sc = [context |-> [modelId |-> "", instance |-> 0], instances |-> <<>>,
           jobs |-> [j \in Jobs |-> [pc |-> "idle", id |-> ""]]]
  /\ models = [id \in ModelIds |-> NoEntry]
  /\ order = <<>>
  /\ objs = [o \in 1..MaxObjs |-> [pathName |-> "", outputType |-> "", model |-> 0, workflows |-> {}]]
  /\ nextObj = 1
  /\ handles = [h \in 1..MaxHandles |-> NoHandle]
  /\ nextHandle = 1
  /\ ctxs = [c \in 1..MaxCtxs |-> NoCtx]
  /\ nextCtx = 1
  /\ embs = [e \in 1..MaxEmbs |-> NoEmb]
  /\ nextEmb = 1
  /\ embeddingContext = 0
  /\ files = {}
  /\ conns = [c \in Conns |-> IdleConn]
  /\ jobs = [j \in Jobs |-> IdleJob]
  /\ calls = [inits |-> 0, closes |-> 0, jobs |-> 0]
  /\ cpu = "none"

\* deleteModel(id) as the rest of the program sees it: iterators step back,
\* and an eviction loop parked on the deleted wrapper keeps the record the
\* wrapper held
JobsAfterDelete(js, ms, ord, id) ==
  [j \in Jobs |->
     IF js[j].pc = "evictWait"
     THEN [js[j] EXCEPT !.it = AdjustIt(@, Pos(ord, id)),
                        !.evictObj = IF js[j].evictId = id /\ @ = 0 /\ ms[id].obj # 0
                                     THEN ms[id].obj ELSE @]
     ELSE js[j]]

ConnsAfterDelete(cs, ord, id) ==
  [c \in Conns |->
     IF cs[c].pc \in {"closeLoop", "closeDisposeWait"}
     THEN [cs[c] EXCEPT !.it = AdjustIt(@, Pos(ord, id))]
     ELSE cs[c]]

\* ------------------------------------------------------------ initialize
InitPcs == {"initLoop", "initLoad", "downloadWait", "initLoadWait", "initEmbWait"}

\* model records the running initialize calls may still create
Reserved == LET R(c) == IF conns[c].pc \in InitPcs
                         THEN Len(conns[c].maps) - conns[c].idx + 1 ELSE 0
            IN  R("c1") + R("c2")

\* model.workflows.add(workflowId); setModel(modelName, model); this.workflowId = workflowId
\* and the loop goes on to the next model of the map
Register(c, id, o, os) ==
  /\ objs' = [os EXCEPT ![o].workflows = @ \cup {WorkflowOf(c)}]
  /\ models' = setModel(models, id, o)
  /\ order' = setModelOrder(models, order, id)
  /\ conns' = [conns EXCEPT ![c].workflowId = WorkflowOf(c), ![c].idx = @ + 1,
                            ![c].pc = "initLoop", ![c].newObj = 0]
  /\ cpu' = c

\* initialize(workflowId, models), resumed after `await getEngine()`
Initialize(c, ms) ==
  /\ cpu = "none" /\ conns[c].pc = "idle"
  /\ calls.inits < MaxInits
  /\ c = "c1" \/ calls.inits > 0        \* the connectors are alike: c1 goes first
  /\ nextObj + Reserved + Len(ms) <= MaxObjs + 1
  /\ conns' = [conns EXCEPT ![c].pc = "initLoop", ![c].maps = ms, ![c].idx = 1,
                            ![c].err = ""]
  /\ calls' = [calls EXCEPT !.inits = @ + 1]
  /\ cpu' = c
  /\ UNCHANGED <<registry, engine, embeddingContext, files, jobs>>
  /\ UNCHANGED aux

\* the map is exhausted: initialize returns
InitReturn(c) ==
  /\ cpu = c /\ conns[c].pc = "initLoop"
  /\ conns[c].idx > Len(conns[c].maps)
  /\ conns' = [conns EXCEPT ![c].pc = "idle", ![c].maps = <<>>, ![c].idx = 0]
  /\ cpu' = "none"
  /\ UNCHANGED <<registry, engine, embeddingContext, files, jobs, calls>>
  /\ UNCHANGED aux

\* getModel(modelName) finds an entry: the workflow joins its reference set
InitExisting(c) ==
  /\ cpu = c /\ conns[c].pc = "initLoop"
  /\ conns[c].idx <= Len(conns[c].maps)
  /\ LET id == conns[c].maps[conns[c].idx] IN
       /\ getModel(id) # 0
       /\ Register(c, id, getModel(id), objs)
  /\ UNCHANGED <<nextObj, engine, embeddingContext, files, jobs, calls>>
  /\ UNCHANGED aux

\* no entry: the model file is downloaded unless it exists
InitNew(c) ==
  /\ cpu = c /\ conns[c].pc = "initLoop"
  /\ conns[c].idx <= Len(conns[c].maps)
  /\ LET id == conns[c].maps[conns[c].idx] IN
       /\ getModel(id) = 0
       /\ IF id \in files
          THEN /\ conns' = [conns EXCEPT ![c].pc = "initLoad"]
               /\ cpu' = c
               /\ files' = files
          ELSE \* createWriteStream creates the file, https.get is awaited
               /\ conns' = [conns EXCEPT ![c].pc = "downloadWait"]
               /\ cpu' = "none"
               /\ files' = files \cup {id}
  /\ UNCHANGED <<registry, engine, embeddingContext, jobs, calls>>
  /\ UNCHANGED aux

DownloadDone(c) ==
  /\ cpu = "none" /\ conns[c].pc = "downloadWait"
  /\ conns' = [conns EXCEPT ![c].pc = "initLoad"]
  /\ cpu' = c
  /\ UNCHANGED <<registry, engine, embeddingContext, files, jobs, calls>>
  /\ UNCHANGED aux

\* the 'error' handler unlinks the file and rejects; the catch rethrows
DownloadFail(c) ==
  /\ cpu = "none" /\ conns[c].pc = "downloadWait"
  /\ files' = files \ {conns[c].maps[conns[c].idx]}
  /\ conns' = [conns EXCEPT ![c].pc = "idle", ![c].maps = <<>>, ![c].idx = 0,
                            ![c].err = "Error"]
  /\ cpu' = "none"
  /\ UNCHANGED <<registry, engine, embeddingContext, jobs, calls>>
  /\ UNCHANGED aux

\* a text model is registered without a handle; a vector model is loaded first
InitLoad(c) ==
  /\ cpu = c /\ conns[c].pc = "initLoad"
  /\ LET id == conns[c].maps[conns[c].idx] IN
       IF OutputType(id) = "vector"
       THEN /\ conns' = [conns EXCEPT ![c].pc = "initLoadWait"]
            /\ cpu' = "none"
            /\ UNCHANGED registry
       ELSE /\ nextObj' = nextObj + 1
            /\ Register(c, id, nextObj,
                 [objs EXCEPT ![nextObj] = [pathName |-> id, outputType |-> "text",
                                            model |-> 0, workflows |-> {}]])
  /\ UNCHANGED <<engine, embeddingContext, files, jobs, calls>>
  /\ UNCHANGED aux

\* engine.loadModel resolved: the record is built around the new handle
InitLoadDone(c) ==
  /\ cpu = "none" /\ conns[c].pc = "initLoadWait"
  /\ nextHandle <= MaxHandles
  /\ LET id == conns[c].maps[conns[c].idx]
         os == [objs EXCEPT ![nextObj] = [pathName |-> id, outputType |-> "vector",
                                          model |-> nextHandle, workflows |-> {}]]
     IN /\ handles' = [handles EXCEPT ![nextHandle] = [of |-> id, disp |-> 0, by |-> {}]]
        /\ nextHandle' = nextHandle + 1
        /\ nextObj' = nextObj + 1
        /\ IF embeddingContext = 0
           THEN \* await modelInstance.createEmbeddingContext()
                /\ objs' = os
                /\ conns' = [conns EXCEPT ![c].pc = "initEmbWait", ![c].newObj = nextObj]
                /\ cpu' = "none"
                /\ UNCHANGED <<models, order>>
           ELSE Register(c, id, nextObj, os)
  /\ UNCHANGED <<ctxs, nextCtx, embs, nextEmb, embeddingContext, files, jobs, calls>>
  /\ UNCHANGED aux

\* catch (e): unlinkSync(<file>); throw e
InitThrow(c) ==
  /\ files' = files \ {conns[c].maps[conns[c].idx]}
  /\ conns' = [conns EXCEPT ![c].pc = "idle", ![c].maps = <<>>, ![c].idx = 0,
                            ![c].newObj = 0, ![c].err = "Error"]
  /\ cpu' = "none"

InitLoadFail(c) ==
  /\ cpu = "none" /\ conns[c].pc = "initLoadWait"
  /\ InitThrow(c)
  /\ UNCHANGED <<registry, engine, embeddingContext, jobs, calls>>
  /\ UNCHANGED aux

InitEmbDone(c) ==
  /\ cpu = "none" /\ conns[c].pc = "initEmbWait"
  /\ nextEmb <= MaxEmbs
  /\ embs' = [embs EXCEPT ![nextEmb] = [handle |-> objs[conns[c].newObj].model, disp |-> 0]]
  /\ nextEmb' = nextEmb + 1
  /\ embeddingContext' = nextEmb
  /\ Register(c, conns[c].maps[conns[c].idx], conns[c].newObj, objs)
  /\ UNCHANGED <<nextObj, handles, nextHandle, ctxs, nextCtx, files, jobs, calls>>
  /\ UNCHANGED aux

InitEmbFail(c) ==
  /\ cpu = "none" /\ conns[c].pc = "initEmbWait"
  /\ InitThrow(c)
  /\ UNCHANGED <<registry, engine, embeddingContext, jobs, calls>>
  /\ UNCHANGED aux

\* ----------------------------------------------------------------- close
\* close() of a connector that never registered: returns at once
CloseNoop(c) ==
  /\ cpu = "none" /\ conns[c].pc = "idle"
  /\ conns[c].workflowId = ""
  /\ calls.closes < MaxCloses
  /\ calls' = [calls EXCEPT !.closes = @ + 1]
  /\ conns' = [conns EXCEPT ![c].err = ""]
  /\ UNCHANGED <<registry, engine, embeddingContext, files, jobs, cpu>>
  /\ UNCHANGED aux

\* close(): the static embedding context, if any, is disposed first
Close(c) ==
  /\ cpu = "none" /\ conns[c].pc = "idle"
  /\ conns[c].workflowId # ""
  /\ calls.closes < MaxCloses
  /\ calls' = [calls EXCEPT !.closes = @ + 1]
  /\ IF embeddingContext # 0
     THEN /\ embs' = Dispose(embs, embeddingContext)
          /\ conns' = [conns EXCEPT ![c].pc = "closeEmbWait", ![c].err = ""]
          /\ cpu' = "none"
     ELSE /\ embs' = embs
          /\ conns' = [conns EXCEPT ![c].pc = "closeLoop", ![c].it = 0, ![c].err = ""]
          /\ cpu' = c
  /\ UNCHANGED <<registry, handles, nextHandle, ctxs, nextCtx, nextEmb,
                 embeddingContext, files, jobs>>
  /\ UNCHANGED aux

CloseEmbDone(c) ==
  /\ cpu = "none" /\ conns[c].pc = "closeEmbWait"
  /\ embeddingContext' = 0
  /\ conns' = [conns EXCEPT ![c].pc = "closeLoop", ![c].it = 0]
  /\ cpu' = c
  /\ UNCHANGED <<registry, engine, files, jobs, calls>>
  /\ UNCHANGED aux

CloseReturn(c) ==
  /\ cpu = c /\ conns[c].pc = "closeLoop"
  /\ conns[c].it + 1 > Len(order)
  /\ conns' = [conns EXCEPT ![c].pc = "idle", ![c].it = 0, ![c].curId = ""]
  /\ cpu' = "none"
  /\ UNCHANGED <<registry, engine, embeddingContext, files, jobs, calls>>
  /\ UNCHANGED aux

\* one iteration of the loop over the registry, up to its await
CloseVisit(c) ==
  /\ cpu = c /\ conns[c].pc = "closeLoop"
  /\ conns[c].it + 1 <= Len(order)
  /\ LET p  == conns[c].it + 1
         id == order[p]
         o  == models[id].obj
         ws == objs[o].workflows \ {conns[c].workflowId}
     IN /\ objs' = [objs EXCEPT ![o].workflows = ws]
        /\ IF ws = {}
           THEN IF objs[o].model # 0
                THEN \* await model.model.model.dispose()
                     /\ handles' = DisposeHandle(handles, objs[o].model, "close")
                     /\ conns' = [conns EXCEPT ![c].pc = "closeDisposeWait",
                                               ![c].it = p, ![c].curId = id]
                     /\ cpu' = "none"
                     /\ UNCHANGED <<models, order, jobs>>
                ELSE /\ handles' = handles
                     /\ models' = deleteModel(models, id)
                     /\ order' = deleteModelOrder(order, id)
                     /\ jobs' = JobsAfterDelete(jobs, models, order, id)
                     /\ conns' = ConnsAfterDelete([conns EXCEPT ![c].it = p], order, id)
                     /\ cpu' = c
           ELSE \* setModel(id, model.model) changes nothing
                /\ handles' = handles
                /\ conns' = [conns EXCEPT ![c].it = p]
                /\ cpu' = c
                /\ UNCHANGED <<models, order, jobs>>
  /\ UNCHANGED <<nextObj, nextHandle, ctxs, nextCtx, embs, nextEmb,
                 embeddingContext, files, calls>>
  /\ UNCHANGED aux

\* the handle's dispose resolved: deleteModel(id)
CloseDisposeDone(c) ==
  /\ cpu = "none" /\ conns[c].pc = "closeDisposeWait"
  /\ LET id == conns[c].curId IN
       /\ models' = deleteModel(models, id)
       /\ order' = deleteModelOrder(order, id)
       /\ jobs' = JobsAfterDelete(jobs, models, order, id)
       /\ conns' = ConnsAfterDelete([conns EXCEPT ![c].pc = "closeLoop",
                                                  ![c].curId = ""], order, id)
  /\ cpu' = c
  /\ UNCHANGED <<objs, nextObj, engine, embeddingContext, files, calls>>
  /\ UNCHANGED aux


\* ------------------------------------------------- processJob[Stream]
\* the job ends: it returns its result or throws err
Finish(j, js, result, err) ==
  /\ jobs' = [js EXCEPT ![j].pc = "done", ![j].result = result, ![j].err = err]
  /\ cpu' = "none"

\* processJob / processJobStream up to `if (!model)`, after `await getEngine()`
\* processJob without the test `if (!model)`: every job evicts and loads
JobStartAlwaysLoad(j, in) ==
  /\ cpu = "none" /\ jobs[j].pc = "idle"
  /\ j = "j1" \/ jobs["j1"].pc # "idle"   \* the jobs are alike: j1 goes first
  /\ calls.jobs < MaxJobRuns
  /\ calls' = [calls EXCEPT !.jobs = @ + 1]
  /\ LET id == in.id
         o  == getModel(id)
         js == [jobs EXCEPT ![j] = [IdleJob EXCEPT !.kind = in.kind, !.id = id,
                                                   !.sequences = in.sequences]]
     IN IF o = 0
        THEN Finish(j, js, "throw", "ModelNotInitialized")
        ELSE /\ jobs' = [js EXCEPT ![j].modelObj = o, ![j].model = objs[o].model,
                                   ![j].pc = "evict"]
             /\ cpu' = j
  /\ UNCHANGED <<registry, engine, embeddingContext, files, conns>>
  /\ UNCHANGED aux

JobStart(j, in) ==
  /\ cpu = "none" /\ jobs[j].pc = "idle"
  /\ j = "j1" \/ jobs["j1"].pc # "idle"   \* the jobs are alike: j1 goes first
  /\ calls.jobs < MaxJobRuns
  /\ calls' = [calls EXCEPT !.jobs = @ + 1]
  /\ LET id == in.id
         o  == getModel(id)
         js == [jobs EXCEPT ![j] = [IdleJob EXCEPT !.kind = in.kind, !.id = id,
                                                   !.sequences = in.sequences]]
     IN IF o = 0
        THEN Finish(j, js, "throw", "ModelNotInitialized")
        ELSE /\ jobs' = [js EXCEPT ![j].modelObj = o, ![j].model = objs[o].model,
                                   ![j].pc = IF objs[o].model = 0 THEN "evict" ELSE "branch"]
             /\ cpu' = j
  /\ UNCHANGED <<registry, engine, embeddingContext, files, conns>>
  /\ UNCHANGED aux

\* the entry the eviction loop disposes next: the first one after `it` that
\* is a text model holding a handle
Evictable(p) ==
  /\ objs[models[order[p]].obj].outputType = "text"
  /\ objs[models[order[p]].obj].model # 0

NextEvict(it) ==
  IF \E p \in (it + 1)..Len(order) : Evictable(p)
  THEN CHOOSE p \in (it + 1)..Len(order) :
         Evictable(p) /\ \A q \in (it + 1)..(p - 1) : ~Evictable(q)
  ELSE 0

\* the eviction loop up to `await m.model.model.dispose()`, or past its end
\* up to `await engine.loadModel(...)`
JobEvict(j) ==
  /\ cpu = j /\ jobs[j].pc = "evict"
  /\ LET p == NextEvict(jobs[j].it) IN
       IF p # 0
       THEN /\ handles' = DisposeHandle(handles, objs[models[order[p]].obj].model, "evict")
            /\ jobs' = [jobs EXCEPT ![j].pc = "evictWait", ![j].it = p,
                                    ![j].evictId = order[p], ![j].evictObj = 0]
       ELSE /\ handles' = handles
            /\ jobs' = [jobs EXCEPT ![j].pc = "loadWait", ![j].it = 0]
  /\ cpu' = "none"
  /\ UNCHANGED <<registry, nextHandle, ctxs, nextCtx, embs, nextEmb,
                 embeddingContext, files, conns, calls>>
  /\ UNCHANGED aux

\* the dispose resolved: m.model.model = undefined; setModel(id, m.model)
JobEvictDone(j) ==
  /\ cpu = "none" /\ jobs[j].pc = "evictWait"
  /\ LET id == jobs[j].evictId
         o  == IF jobs[j].evictObj # 0 THEN jobs[j].evictObj ELSE models[id].obj
     IN /\ objs' = [objs EXCEPT ![o].model = 0]
        /\ models' = setModel(models, id, o)
        /\ order' = setModelOrder(models, order, id)
  /\ jobs' = [jobs EXCEPT ![j].pc = "evict", ![j].evictId = "", ![j].evictObj = 0]
  /\ cpu' = j
  /\ UNCHANGED <<nextObj, engine, embeddingContext, files, conns, calls>>
  /\ UNCHANGED aux

\* loadModel resolved: modelObj.model = model; setModel(options.model.id, modelObj)
JobLoadDone(j) ==
  /\ cpu = "none" /\ jobs[j].pc = "loadWait"
  /\ nextHandle <= MaxHandles
  /\ handles' = [handles EXCEPT ![nextHandle] = [of |-> jobs[j].id, disp |-> 0, by |-> {}]]
  /\ nextHandle' = nextHandle + 1
  /\ objs' = [objs EXCEPT ![jobs[j].modelObj].model = nextHandle]
  /\ models' = setModel(models, jobs[j].id, jobs[j].modelObj)
  /\ order' = setModelOrder(models, order, jobs[j].id)
  /\ jobs' = [jobs EXCEPT ![j].model = nextHandle, ![j].pc = "branch"]
  /\ cpu' = j
  /\ UNCHANGED <<nextObj, ctxs, nextCtx, embs, nextEmb, embeddingContext, files,
                 conns, calls>>
  /\ UNCHANGED aux

\* loadModel rejected: the job throws (it is outside the try)
JobLoadFail(j) ==
  /\ cpu = "none" /\ jobs[j].pc = "loadWait"
  /\ Finish(j, jobs, "throw", "Error")
  /\ UNCHANGED <<registry, engine, embeddingContext, files, conns, calls>>
  /\ UNCHANGED aux

\* the branch without the test of options.model.outputType: every job takes
\* the text path
JobBranchUnchecked(j) ==
  /\ cpu = j /\ jobs[j].pc = "branch"
  /\ IF getContext(jobs[j].id) = 0
     THEN /\ jobs' = [jobs EXCEPT ![j].pc = "contextWait"]
          /\ cpu' = "none"
     ELSE /\ jobs' = [jobs EXCEPT ![j].pc = "getSequence",
                                  ![j].context = getContext(jobs[j].id)]
          /\ cpu' = j
  /\ UNCHANGED <<registry, engine, embeddingContext, files, conns, calls>>
  /\ UNCHANGED aux

\* the branch on options.model.outputType, and getContext / createContext
JobBranch(j) ==
  /\ cpu = j /\ jobs[j].pc = "branch"
  /\ LET id == jobs[j].id IN
       IF OutputType(id) = "vector"
       THEN IF jobs[j].kind = "stream"
            THEN Finish(j, jobs, "throw", "UnsupportedOperation")
            ELSE IF embeddingContext = 0
                 THEN Finish(j, jobs, "throw", "EmbeddingContextNotInitialized")
                 ELSE \* await this.getVector(embeddingContext, prompt)
                      /\ jobs' = [jobs EXCEPT ![j].pc = "embedWait",
                                              ![j].emb = embeddingContext]
                      /\ cpu' = "none"
       ELSE IF getContext(id) = 0
            THEN \* await model.createContext({sequences})
                 /\ jobs' = [jobs EXCEPT ![j].pc = "contextWait"]
                 /\ cpu' = "none"
            ELSE \* processJobStream declares its own `context` inside the try
                 /\ jobs' = [jobs EXCEPT ![j].pc = "getSequence",
                                ![j].context = getContext(id),
                                ![j].catchContext =
                                   IF jobs[j].kind = "sync" THEN getContext(id) ELSE 0]
                 /\ cpu' = j
  /\ UNCHANGED <<registry, engine, embeddingContext, files, conns, calls>>
  /\ UNCHANGED aux

JobEmbedDone(j) ==
  /\ cpu = "none" /\ jobs[j].pc = "embedWait"
  /\ EmbLive(jobs[j].emb)
  /\ Finish(j, jobs, "ok", "")
  /\ UNCHANGED <<registry, engine, embeddingContext, files, conns, calls>>
  /\ UNCHANGED aux

JobEmbedFail(j) ==
  /\ cpu = "none" /\ jobs[j].pc = "embedWait"
  /\ Finish(j, jobs, "throw", "Error")
  /\ UNCHANGED <<registry, engine, embeddingContext, files, conns, calls>>
  /\ UNCHANGED aux

\* createContext resolved: setContext(options.model.id, context)
JobContextDone(j) ==
  /\ cpu = "none" /\ jobs[j].pc = "contextWait"
  /\ nextCtx <= MaxCtxs
  /\ HandleLive(jobs[j].model)
  /\ ctxs' = [ctxs EXCEPT ![nextCtx] = [handle |-> jobs[j].model,
                                        cap |-> jobs[j].sequences,
                                        inUse |-> 0, disp |-> 0]]
  /\ nextCtx' = nextCtx + 1
  /\ models' = setContext(models, jobs[j].id, nextCtx)
  /\ jobs' = [jobs EXCEPT ![j].pc = "getSequence", ![j].context = nextCtx,
                          ![j].catchContext = IF jobs[j].kind = "sync" THEN nextCtx ELSE 0]
  /\ cpu' = j
  /\ UNCHANGED <<order, objs, nextObj, handles, nextHandle, embs, nextEmb,
                 embeddingContext, files, conns, calls>>
  /\ UNCHANGED aux

JobContextFail(j) ==
  /\ cpu = "none" /\ jobs[j].pc = "contextWait"
  /\ jobs' = [jobs EXCEPT ![j].pc = "catch"]
  /\ cpu' = j
  /\ UNCHANGED <<registry, engine, embeddingContext, files, conns, calls>>
  /\ UNCHANGED aux

\* sequence = context.getSequence(), which throws when the context is
\* disposed or has no sequence left; `await import('node-llama-cpp')`;
\* session = new LlamaChatSession(...); setupSession; parked at the awaits of
\* getFunctions / getGrammarFor / createGrammarForJsonSchema.  (The await of
\* the import touches nothing shared and cannot fail: it is not a separate step.)
JobGetSequence(j) ==
  /\ cpu = j /\ jobs[j].pc = "getSequence"
  /\ LET c == jobs[j].context IN
       IF CtxLive(c) /\ sequencesLeft(ctxs, c) > 0
       THEN /\ ctxs' = [ctxs EXCEPT ![c].inUse = @ + 1]
            /\ jobs' = [jobs EXCEPT ![j].sequence = "live", ![j].session = "live",
                                    ![j].pc = "configWait"]
            /\ cpu' = "none"
       ELSE /\ ctxs' = ctxs
            /\ jobs' = [jobs EXCEPT ![j].pc = "catch"]
            /\ cpu' = j
  /\ UNCHANGED <<registry, handles, nextHandle, nextCtx, embs, nextEmb,
                 embeddingContext, files, conns, calls>>
  /\ UNCHANGED aux

\* configured: processJob awaits session.prompt (the reasoning passes are
\* further awaits of the same call on the same session); processJobStream
\* starts the prompt without awaiting it and parks in its pull loop
JobConfigDone(j) ==
  /\ cpu = "none" /\ jobs[j].pc = "configWait"
  /\ jobs' = IF jobs[j].kind = "sync"
             THEN [jobs EXCEPT ![j].pc = "promptWait"]
             ELSE [jobs EXCEPT ![j].pc = "streamWait", ![j].prod = "running"]
  /\ cpu' = "none"
  /\ UNCHANGED <<registry, engine, embeddingContext, files, conns, calls>>
  /\ UNCHANGED aux

JobConfigFail(j) ==
  /\ cpu = "none" /\ jobs[j].pc = "configWait"
  /\ jobs' = [jobs EXCEPT ![j].pc = "catch"]
  /\ cpu' = j
  /\ UNCHANGED <<registry, engine, embeddingContext, files, conns, calls>>
  /\ UNCHANGED aux

\* the engine generates only on a live context of a live model
CanGenerate(j) ==
  /\ CtxLive(jobs[j].context)
  /\ HandleLive(ctxs[jobs[j].context].handle)

JobPromptDone(j) ==
  /\ cpu = "none" /\ jobs[j].pc = "promptWait"
  /\ CanGenerate(j)
  /\ jobs' = [jobs EXCEPT ![j].pc = "release", ![j].result = "ok"]
  /\ cpu' = j
  /\ UNCHANGED <<registry, engine, embeddingContext, files, conns, calls>>
  /\ UNCHANGED aux

JobPromptFail(j) ==
  /\ cpu = "none" /\ jobs[j].pc = "promptWait"
  /\ jobs' = [jobs EXCEPT ![j].pc = "catch"]
  /\ cpu' = j
  /\ UNCHANGED <<registry, engine, embeddingContext, files, conns, calls>>
  /\ UNCHANGED aux

\* ---------------------------------------------- streaming: the emitter
\* onTextChunk: textEmitter.emit('text', text).  The pull loop holds a
\* `once` listener only while it is parked at its promise; while the
\* generator is suspended at `yield` nobody listens and the event is dropped
StreamChunk(j) ==
  /\ cpu = "none" /\ jobs[j].prod = "running"
  /\ jobs[j].pc \in {"streamWait", "streamYield"}
  /\ jobs[j].emitted < MaxChunks
  /\ CanGenerate(j)
  /\ jobs' = IF jobs[j].pc = "streamWait"
             THEN [jobs EXCEPT ![j].emitted = @ + 1, ![j].yielded = @ + 1,
                               ![j].pc = "streamYield"]
             ELSE [jobs EXCEPT ![j].emitted = @ + 1, ![j].lost = @ + 1]
  /\ UNCHANGED <<registry, engine, embeddingContext, files, conns, calls, cpu>>
  /\ UNCHANGED aux

\* the prompt settled: .then and .catch both emit the sentinel undefined
StreamEnd(j) ==
  /\ cpu = "none" /\ jobs[j].prod = "running"
  /\ jobs[j].pc \in {"streamWait", "streamYield"}
  /\ IF jobs[j].pc = "streamWait"
     THEN /\ jobs' = [jobs EXCEPT ![j].prod = "ended", ![j].pc = "release",
                                  ![j].result = "ok"]
          /\ cpu' = j
     ELSE /\ jobs' = [jobs EXCEPT ![j].prod = "ended", ![j].sentinelLost = TRUE]
          /\ cpu' = "none"
  /\ UNCHANGED <<registry, engine, embeddingContext, files, conns, calls>>
  /\ UNCHANGED aux

\* the consumer asks for the next result: the loop registers a new listener
StreamPull(j) ==
  /\ cpu = "none" /\ jobs[j].pc = "streamYield"
  /\ jobs' = [jobs EXCEPT ![j].pc = "streamWait"]
  /\ UNCHANGED <<registry, engine, embeddingContext, files, conns, calls, cpu>>
  /\ UNCHANGED aux

\* ---------------------------------------------------------- release
\* session.dispose(); sequence.dispose(); the context is disposed when
\* context.sequencesLeft === (options.sequences ?? 1)
JobRelease(j) ==
  /\ cpu = j /\ jobs[j].pc = "release"
  /\ LET c  == jobs[j].context
         cs == [ctxs EXCEPT ![c].inUse = @ - 1]
     IN IF sequencesLeft(cs, c) = jobs[j].sequences
        THEN /\ ctxs' = Dispose(cs, c)
             /\ jobs' = [jobs EXCEPT ![j].session = "disposed",
                                     ![j].sequence = "disposed",
                                     ![j].pc = "releaseWait"]
             /\ cpu' = "none"
        ELSE /\ ctxs' = cs
             /\ Finish(j, [jobs EXCEPT ![j].session = "disposed",
                                       ![j].sequence = "disposed"], "ok", "")
  /\ UNCHANGED <<registry, handles, nextHandle, nextCtx, embs, nextEmb,
                 embeddingContext, files, conns, calls>>
  /\ UNCHANGED aux

\* context.dispose() resolved: setContext(options.model.id, undefined)
JobReleaseDone(j) ==
  /\ cpu = "none" /\ jobs[j].pc = "releaseWait"
  /\ models' = setContext(models, jobs[j].id, 0)
  /\ Finish(j, jobs, "ok", "")
  /\ UNCHANGED <<order, objs, nextObj, engine, embeddingContext, files, conns, calls>>
  /\ UNCHANGED aux

\* catch (e): what is there and not disposed is disposed, then e is rethrown
JobCatch(j) ==
  /\ cpu = j /\ jobs[j].pc = "catch"
  /\ LET c  == jobs[j].context
         cc == jobs[j].catchContext
         cs == IF jobs[j].sequence = "live"
               THEN [ctxs EXCEPT ![c].inUse = @ - 1] ELSE ctxs
         js == [jobs EXCEPT
                  ![j].session  = IF @ = "live" THEN "disposed" ELSE @,
                  ![j].sequence = IF @ = "live" THEN "disposed" ELSE @]
     IN IF cc # 0 /\ cs[cc].disp = 0 /\ sequencesLeft(cs, cc) = jobs[j].sequences
        THEN /\ ctxs' = Dispose(cs, cc)
             /\ jobs' = [js EXCEPT ![j].pc = "catchWait"]
             /\ cpu' = "none"
        ELSE /\ ctxs' = cs
             /\ Finish(j, js, "throw", "Error")
  /\ UNCHANGED <<registry, handles, nextHandle, nextCtx, embs, nextEmb,
                 embeddingContext, files, conns, calls>>
  /\ UNCHANGED aux

JobCatchDone(j) ==
  /\ cpu = "none" /\ jobs[j].pc = "catchWait"
  /\ models' = setContext(models, jobs[j].id, 0)
  /\ Finish(j, jobs, "throw", "Error")
  /\ UNCHANGED <<order, objs, nextObj, engine, embeddingContext, files, conns, calls>>
  /\ UNCHANGED aux

\* the caller has the job's outcome and may issue its next job
JobReturn(j) ==
  /\ cpu = "none" /\ jobs[j].pc = "done"
  /\ jobs' = [jobs EXCEPT ![j] = IdleJob]
  /\ UNCHANGED <<registry, engine, embeddingContext, files, conns, calls, cpu>>
  /\ UNCHANGED aux

\* ------------------------------------------------------- specification
InitializeNext(c) ==
  \/ \E ms \in InitMaps : Initialize(c, ms)
  \/ InitReturn(c) \/ InitExisting(c) \/ InitNew(c)
  \/ DownloadDone(c) \/ DownloadFail(c)
  \/ InitLoad(c) \/ InitLoadDone(c) \/ InitLoadFail(c)
  \/ InitEmbDone(c) \/ InitEmbFail(c)

CloseNext(c) ==
  \/ CloseNoop(c) \/ Close(c) \/ CloseEmbDone(c)
  \/ CloseReturn(c) \/ CloseVisit(c) \/ CloseDisposeDone(c)

JobNext(j) ==
  \/ \E in \in JobInputs : JobStart(j, in)
  \/ JobEvict(j) \/ JobEvictDone(j) \/ JobLoadDone(j) \/ JobLoadFail(j)
  \/ JobBranch(j) \/ JobEmbedDone(j) \/ JobEmbedFail(j)
  \/ JobContextDone(j) \/ JobContextFail(j) \/ JobGetSequence(j)
  \/ JobConfigDone(j) \/ JobConfigFail(j)
  \/ JobPromptDone(j) \/ JobPromptFail(j)
  \/ StreamChunk(j) \/ StreamEnd(j) \/ StreamPull(j)
  \/ JobRelease(j) \/ JobReleaseDone(j) \/ JobCatch(j) \/ JobCatchDone(j)
  \/ JobReturn(j)

\* Spec: two connectors (two workflows) register and release while the
\* runtime issues its jobs one after the other.
Next ==
  \/ \E c \in Conns : InitializeNext(c) \/ CloseNext(c)
  \/ JobNext("j1")

Spec == Init /\ [][Next]_vars

\* SpecJobs: one connector registers, and two jobs are in flight together.
NextJobs ==
  \/ InitializeNext("c1")
  \/ \E j \in Jobs : JobNext(j)

SpecJobs == Init /\ [][NextJobs]_vars


\* ======================================= configuration of a generation
\* parameters.grammar: undefined (""), the built-in 'json' / 'json_arr', the
\* boolean-result 'if_else', 'default', or a grammar supplied by the caller
Grammars == {"", "json", "json_arr", "if_else", "default", "custom"}

ConfigInputs ==
  [kind : JobKinds, functions : 0..MaxFunctions, grammar : Grammars,
   reasoning : BOOLEAN]

\* promptOptions as the two pipelines build it.  functions: the number of
\* functions handed over (0: undefined); grammar: the engine call that made
\* the grammar ("": undefined)
promptOptions(kind, functions, grammar) ==
  IF grammar = "" \/ grammar = "default"
  THEN [functions |-> functions, grammar |-> ""]
  ELSE IF grammar \in {"json", "json_arr"}
  THEN [functions |-> 0, grammar |-> "getGrammarFor"]
  ELSE IF kind = "sync"
  THEN [functions |-> 0, grammar |-> "createGrammarForJsonSchema"]
  ELSE [functions |-> functions, grammar |-> "createGrammar"]

\* what a reasoning pass hands to session.prompt: processJob spreads
\* promptOptions, processJobStream passes neither functions nor grammar
reasoningOptions(kind, options) ==
  IF kind = "sync" THEN options ELSE NoOptions

\* a piece of text: a delimiter, the prompt of the job, or chunk k of the
\* text the engine generated in a pass, len characters long
Piece(kind) == [kind |-> kind, pass |-> "", k |-> 0, len |-> 0]
TextChunks(pass, response) ==
  [k \in 1..Len(response) |->
     [kind |-> "text", pass |-> pass, k |-> k, len |-> response[k]]]

\* what the engine generates in one pass: the lengths of its text chunks
ChunkLengths == {0, 200, 600}
Responses == UNION {[1..n -> ChunkLengths] : n \in 0..MaxChunks}

RECURSIVE length(_)
length(q) == IF q = <<>> THEN 0 ELSE Head(q).len + length(Tail(q))

\* a refinement pass that is issued whatever the first pass gave
alwaysRefine(thinking) == TRUE

\* if (thinking.length < 500)
needsRefine(thinking) == length(thinking) < 500

\* `<think>${thinking}</think>\n\n`
wrapped(thinking) == <<Piece("open")>> \o thinking \o <<Piece("close")>>

\* textEmitter.emit('text', text): heard only while the consumer loop of
\* processJobStream waits in textEmitter.once
emit(c, event) ==
  IF c.listening
  THEN [c EXCEPT !.output = @ \o event, !.listening = FALSE]
  ELSE c

\* a token meter shared by all sequences of the context
contextMeter(c) ==
  [usedInputTokens |-> c.meter.usedInputTokens + c.others.usedInputTokens,
   usedOutputTokens |-> c.meter.usedOutputTokens + c.others.usedOutputTokens]

\* sequence.tokenMeter: the meter of the sequence context.getSequence()
\* made for this job
tokenMeter(c) == c.meter

\* the tokens one call of the session evaluates and generates: a token for
\* each piece of its prompt and for each chunk of its text
metered(m, prompt, text) ==
  [usedInputTokens |-> m.usedInputTokens + Len(prompt),
   usedOutputTokens |-> m.usedOutputTokens + Len(text)]

\* a job reaches its configuration step with these parameters
ConfigureStart(in) ==
  /\ cfg.pc = "idle"
  /\ cfg' = [NoCfg EXCEPT !.pc = "configure", !.kind = in.kind,
                          !.functions = in.functions, !.grammar = in.grammar,
                          !.reasoning = in.reasoning]
  /\ UNCHANGED exceptCfg

\* the stream consumer reaches textEmitter.once in the tick that issues the
\* first generation
Configure ==
  /\ cfg.pc = "configure"
  /\ cfg' = [cfg EXCEPT
               !.promptOptions = promptOptions(cfg.kind, cfg.functions, cfg.grammar),
               !.listening = (cfg.kind = "stream"),
               !.starting = tokenMeter(cfg),
               !.pc = IF cfg.reasoning THEN "reasoning" ELSE "final"]
  /\ UNCHANGED exceptCfg

\* session.prompt of a pass is called; the engine will generate response
sessionPrompt(c, pass, seed, prompt, options, response) ==
  [c EXCEPT !.call = pass, !.sent = options,
            !.calls = Append(@, [pass |-> pass, seed |-> seed, prompt |-> prompt,
                                 response |-> TextChunks(pass, response)]),
            !.pending = TextChunks(pass, response), !.text = <<>>,
            !.pc = "generating"]

\* the first reasoning pass
PromptReasoning(response) ==
  /\ cfg.pc = "reasoning"
  /\ cfg' = sessionPrompt(cfg, "reasoning", <<>>, <<Piece("prompt")>>,
                          reasoningOptions(cfg.kind, cfg.promptOptions), response)
  /\ UNCHANGED exceptCfg

\* the second reasoning pass, with `Initial thoughts:${thinking}`
PromptRefine(response) ==
  /\ cfg.pc = "refine"
  /\ cfg' = sessionPrompt(cfg, "refine", cfg.thinking, <<Piece("prompt")>>,
                          reasoningOptions(cfg.kind, cfg.promptOptions), response)
  /\ UNCHANGED exceptCfg

\* session.prompt(finalPrompt, {maxTokens, temperature, ...promptOptions});
\* processJob puts the wrapped reasoning in front of its output here
PromptFinal(response) ==
  /\ cfg.pc = "final"
  /\ LET finalPrompt == IF cfg.reasoning
                        THEN wrapped(cfg.thinking) \o <<Piece("prompt")>>
                        ELSE <<Piece("prompt")>>
         c == IF cfg.reasoning /\ cfg.kind = "sync"
              THEN [cfg EXCEPT !.output = @ \o wrapped(cfg.thinking)]
              ELSE cfg
     IN cfg' = sessionPrompt(c, "final", <<>>, finalPrompt, cfg.promptOptions, response)
  /\ UNCHANGED exceptCfg

\* the engine generates the next chunk of the running pass.  processJob
\* gets the text when the call resolves; processJobStream has an onTextChunk
\* on every pass
TextChunk ==
  /\ cfg.pc = "generating"
  /\ cfg.pending # <<>>
  /\ LET chunk == Head(cfg.pending)
         c     == [cfg EXCEPT !.pending = Tail(@), !.text = Append(@, chunk)]
     IN cfg' =
          IF cfg.kind = "sync" THEN c
          ELSE IF cfg.call = "reasoning"
          THEN [emit(c, IF length(cfg.thinking) = 0
                        THEN <<Piece("open"), chunk>> ELSE <<chunk>>)
                  EXCEPT !.thinking = Append(@, chunk)]
          ELSE IF cfg.call = "refine"
          THEN [emit(c, <<chunk>>) EXCEPT !.thinking = Append(@, chunk)]
          ELSE emit(c, <<chunk>>)
  /\ UNCHANGED exceptCfg

\* textEmitter.emit('text', undefined): the consumer loop ends if it hears it
sentinel(c) ==
  IF c.listening THEN [c EXCEPT !.pc = "done", !.listening = FALSE]
  ELSE [c EXCEPT !.pc = "hung"]

\* the call of the running pass resolves
PromptResolve ==
  /\ cfg.pc = "generating"
  /\ cfg.pending = <<>>
  /\ LET last == cfg.calls[Len(cfg.calls)]
         c == [cfg EXCEPT !.meter = metered(@, last.seed \o last.prompt, cfg.text)]
     IN cfg' =
       IF c.kind = "sync"
       THEN IF c.call = "final"
            THEN [c EXCEPT !.output = @ \o c.text, !.pc = "done",
                           !.result =
                             [usedInputTokens |->
                                tokenMeter(c).usedInputTokens
                                  - c.starting.usedInputTokens,
                              usedOutputTokens |->
                                tokenMeter(c).usedOutputTokens
                                  - c.starting.usedOutputTokens]]
            ELSE LET thinking == c.thinking \o c.text IN
                 [c EXCEPT !.thinking = thinking,
                           !.pc = IF c.call = "reasoning" /\ needsRefine(thinking)
                                  THEN "refine" ELSE "final"]
       ELSE IF c.call = "final" THEN sentinel(c)
       ELSE IF c.call = "reasoning" /\ needsRefine(c.thinking)
       THEN [c EXCEPT !.pc = "refine"]
       ELSE [emit(c, <<Piece("close")>>) EXCEPT !.pc = "final"]
  /\ UNCHANGED exceptCfg

\* the call of the running pass rejects: processJob throws, every catch of
\* processJobStream emits the end of the stream
PromptReject ==
  /\ cfg.pc = "generating"
  /\ cfg' = IF cfg.kind = "sync"
            THEN [cfg EXCEPT !.pc = "failed", !.rejected = TRUE]
            ELSE sentinel([cfg EXCEPT !.pending = <<>>, !.rejected = TRUE])
  /\ UNCHANGED exceptCfg

\* the caller of processJobStream asks for the next value: the loop goes
\* back to textEmitter.once
StreamNext ==
  /\ cfg.kind = "stream"
  /\ cfg.pc \in {"reasoning", "refine", "final", "generating"}
  /\ ~cfg.listening
  /\ cfg' = [cfg EXCEPT !.listening = TRUE]
  /\ UNCHANGED exceptCfg

\* another job generates on a sequence of its own of the same context
OtherJobGenerates ==
  /\ cfg.pc \in {"configure", "reasoning", "refine", "final", "generating"}
  /\ cfg.others.usedOutputTokens < MaxOtherTokens
  /\ cfg' = [cfg EXCEPT !.others = metered(@, <<Piece("prompt")>>, <<Piece("text")>>)]
  /\ UNCHANGED exceptCfg

NextConfigure ==
  \/ \E in \in ConfigInputs : ConfigureStart(in)
  \/ Configure
  \/ \E response \in Responses : PromptReasoning(response)
  \/ \E response \in Responses : PromptRefine(response)
  \/ \E response \in Responses : PromptFinal(response)
  \/ TextChunk
  \/ PromptResolve
  \/ PromptReject
  \/ StreamNext
  \/ OtherJobGenerates

SpecConfigure == Init /\ [][NextConfigure]_<<vars, aux>>

\* ==================================================== the document index
\* Two versions of the index are in the repository: the one that cuts the
\* content every CHUNK_MAX_LENGTH characters ("chunks") and the one that
\* first splits it into sentences ("sentences").  The calls on one index
\* are taken one at a time.
Versions == {"chunks", "sentences"}
Names == {"a", "b"}
Texts == {"X", "Y"}
SentenceLengths == {1, 3}
WindowOptions == {0, 4}      \* options.maxChunks / options.maxSentences; 0: absent

\* a content: its text and the lengths of the sentences splitIntoSentences
\* finds in it (the "chunks" version sees only the total length)
Shapes == UNION {[1..n -> SentenceLengths] : n \in 0..MaxSentences}
Contents == [text : Texts, sentences : Shapes]

\* the most pieces one content is cut into, and the most chunks ever stored
MaxPieces == MaxSentences * 2
MaxStored == MaxIndexCalls * MaxPieces

RECURSIVE SumSeq(_)
SumSeq(q) == IF q = <<>> THEN 0 ELSE Head(q) + SumSeq(Tail(q))

\* for (j = 0; j < len; j += CHUNK_MAX_LENGTH) slice(j, j + CHUNK_MAX_LENGTH):
\* the pieces of string s (0: the whole content) by their start offsets
SlicesOf(s, len) ==
  [k \in 1..((len + CHUNK_MAX_LENGTH - 1) \div CHUNK_MAX_LENGTH) |->
     [s |-> s, j |-> (k - 1) * CHUNK_MAX_LENGTH]]

RECURSIVE SentencePieces(_, _)
SentencePieces(sentences, i) ==
  IF i > Len(sentences) THEN <<>>
  ELSE SlicesOf(i, sentences[i]) \o SentencePieces(sentences, i + 1)

\* every piece addContent would embed when no embedding fails
Pieces(version, content) ==
  IF version = "chunks" THEN SlicesOf(0, SumSeq(content.sentences))
  ELSE SentencePieces(content.sentences, 1)

\* a loop inside a try: the pieces embedded before getVector throws
RECURSIVE UntilFailure(_, _)
UntilFailure(ps, fails) ==
  IF ps = <<>> \/ Head(ps) \in fails THEN <<>>
  ELSE <<Head(ps)>> \o UntilFailure(Tail(ps), fails)

\* the "sentences" version: the try is inside the loop over the sentences
RECURSIVE sentencesToAdd(_, _, _)
sentencesToAdd(sentences, i, fails) ==
  IF i > Len(sentences) THEN <<>>
  ELSE UntilFailure(SlicesOf(i, sentences[i]), fails)
         \o sentencesToAdd(sentences, i + 1, fails)

\* the pieces one addContent embeds and stores
embeddings(version, content, fails) ==
  IF version = "chunks"
  THEN UntilFailure(SlicesOf(0, SumSeq(content.sentences)), fails)
  ELSE sentencesToAdd(content.sentences, 1, fails)

\* a stored chunk, and the vector made of it, by what it was derived from
ChunkOf(name, text, p) == [name |-> name, text |-> text, s |-> p.s, j |-> p.j]
ChunksOf(name, text, ps) == [k \in 1..Len(ps) |-> ChunkOf(name, text, ps[k])]

\* Array.prototype.splice(start, deleteCount), indices from 0
splice(q, start, deleteCount) ==
  LET n  == Len(q)
      lo == IF start > n THEN n ELSE start
      hi == IF lo + deleteCount > n THEN n ELSE lo + deleteCount
  IN SubSeq(q, 1, lo) \o SubSeq(q, hi + 1, n)

\* vectorDatabase.remove(indices): the vectors at the listed positions leave
\* the index, a position that holds no vector is ignored
remove(db, indices) ==
  LET keep == {k \in 1..Len(db) : (k - 1) \notin indices}
  IN [m \in 1..Cardinality(keep) |->
        db[CHOOSE k \in keep : Cardinality({x \in keep : x <= k}) = m]]

\* documents.find(document => document.name === name): its position, 0: none
find(documents, name) ==
  IF \E k \in 1..Len(documents) : documents[k].name = name
  THEN CHOOSE k \in 1..Len(documents) :
         /\ documents[k].name = name
         /\ \A m \in 1..(k - 1) : documents[m].name # name
  ELSE 0

removeContent(r, name) ==
  LET k == find(r.documents, name) IN
  IF k = 0 THEN r
  ELSE LET document == r.documents[k] IN
       [r EXCEPT
          !.vectorDatabase =
             remove(r.vectorDatabase,
                    {document.startIndex + i : i \in 0..(document.length - 1)}),
          !.chunks = splice(r.chunks, document.startIndex, document.length),
          !.documents = SubSeq(r.documents, 1, k - 1)
                          \o SubSeq(r.documents, k + 1, Len(r.documents))]

\* addContent past the 'Model not initialized' test.  The "chunks" version
\* pushes every chunk as it is embedded and reads chunks.length for the
\* record afterwards; the "sentences" version reads sentences.length before
\* it pushes
addContent(r, name, content, fails) ==
  LET r1     == IF find(r.documents, name) # 0 THEN removeContent(r, name) ELSE r
      stored == ChunksOf(name, content.text,
                         embeddings(r.version, content, fails))
      start  == IF r.version = "chunks" THEN Len(r1.chunks) + Len(stored)
                ELSE Len(r1.chunks)
  IN [r1 EXCEPT
        !.chunks = r1.chunks \o stored,
        !.documents =
           IF Len(stored) > 0
           THEN Append(r1.documents, [name |-> name, startIndex |-> start,
                                      length |-> Len(stored)])
           ELSE r1.documents,
        !.vectorDatabase = r1.vectorDatabase \o stored]

\* the indices Array.prototype.slice(start, end) selects in an array of n
slice(n, start, end) ==
  LET from == IF start < 0 THEN (IF n + start < 0 THEN 0 ELSE n + start)
              ELSE (IF start > n THEN n ELSE start)
      to   == IF end < 0 THEN (IF n + end < 0 THEN 0 ELSE n + end)
              ELSE (IF end > n THEN n ELSE end)
  IN [k \in 1..(IF to > from THEN to - from ELSE 0) |-> from + k - 1]

\* the document getContext names in front of the window of hit index
owner(documents, index) ==
  IF \E k \in 1..Len(documents) :
       documents[k].startIndex <= index
         /\ index < documents[k].startIndex + documents[k].length
  THEN LET k == CHOOSE k \in 1..Len(documents) :
                  /\ documents[k].startIndex <= index
                  /\ index < documents[k].startIndex + documents[k].length
                  /\ \A m \in 1..(k - 1) :
                       ~(documents[m].startIndex <= index
                           /\ index < documents[m].startIndex + documents[m].length)
       IN documents[k].name
  ELSE ""

\* new LlamacppGenerativeAIWorkerConnector(options)
Construct(version, option) ==
  /\ rag.pc = "off"
  /\ rag' = [NoRag EXCEPT
               !.pc = "ready", !.version = version,
               !.maxChunks = IF option # 0 THEN option
                             ELSE IF version = "chunks" THEN 2 ELSE 6]
  /\ UNCHANGED exceptRag

\* initialize(): the similarity model is loaded
LoadSimilarityModel ==
  /\ rag.pc = "ready"
  /\ ~rag.similarityModel
  /\ rag' = [rag EXCEPT !.similarityModel = TRUE]
  /\ UNCHANGED exceptRag

\* failing: the getVector calls the engine fails, by the position of their
\* piece in the content
AddContent(name, content, failing) ==
  /\ rag.pc = "ready"
  /\ rag.calls < MaxIndexCalls
  /\ failing \subseteq 1..Len(Pieces(rag.version, content))
  /\ LET fails == {Pieces(rag.version, content)[k] : k \in failing}
         call == [NoLast EXCEPT !.op = "addContent", !.name = name,
                                !.text = content.text,
                                !.pieces = Pieces(rag.version, content),
                                !.failed = fails]
     IN IF ~rag.similarityModel
        THEN rag' = [rag EXCEPT !.calls = @ + 1,
                                !.last = [call EXCEPT !.threw = TRUE]]
        ELSE LET r == addContent(rag, name, content, fails) IN
             rag' = [r EXCEPT
                       !.calls = @ + 1,
                       !.last = [call EXCEPT
                                   !.stored = embeddings(rag.version, content, fails)]]
  /\ UNCHANGED exceptRag

RemoveContent(name) ==
  /\ rag.pc = "ready"
  /\ rag.calls < MaxIndexCalls
  /\ rag' = [removeContent(rag, name) EXCEPT
               !.calls = @ + 1,
               !.last = [NoLast EXCEPT !.op = "removeContent", !.name = name]]
  /\ UNCHANGED exceptRag

\* getContext for one hit of vectorDatabase.search (index: a position of the
\* vector index; -1: the search finds nothing)
GetContext(index, option) ==
  /\ rag.pc = "ready"
  /\ rag.calls < MaxIndexCalls
  /\ IF rag.vectorDatabase = <<>> THEN index = -1
     ELSE index \in 0..(Len(rag.vectorDatabase) - 1)
  /\ LET maxChunks == IF rag.version = "chunks" /\ option # 0 THEN option
                      ELSE rag.maxChunks
         call == [NoLast EXCEPT !.op = "getContext", !.hit = index]
     IN IF ~rag.similarityModel
        THEN rag' = [rag EXCEPT !.calls = @ + 1,
                                !.last = [call EXCEPT !.threw = TRUE]]
        ELSE rag' = [rag EXCEPT
               !.calls = @ + 1,
               !.last = IF index = -1 THEN call
                        ELSE [call EXCEPT
                                !.maxChunks = maxChunks,
                                !.from = owner(rag.documents, index),
                                !.window = slice(Len(rag.chunks),
                                                 index - (maxChunks \div 2 - 1),
                                                 index + maxChunks \div 2)]]
  /\ UNCHANGED exceptRag

NextIndex ==
  \/ \E version \in Versions, option \in WindowOptions : Construct(version, option)
  \/ LoadSimilarityModel
  \/ \E name \in Names, content \in Contents, failing \in SUBSET (1..MaxPieces) :
       AddContent(name, content, failing)
  \/ \E name \in Names : RemoveContent(name)
  \/ \E index \in -1..(MaxStored - 1), option \in WindowOptions :
       GetContext(index, option)

SpecIndex == Init /\ [][NextIndex]_<<vars, aux>>

\* addContent(content) of the connector without names and documents: the
\* sentences are pushed first, then embedded all at once (Promise.all), and
\* the vectors are inserted only if every embedding succeeded.  failing: the
\* sentences whose getVector the engine fails
AddContentPlain(content, failing) ==
  /\ rag.pc = "ready" /\ rag.version = "plain"
  /\ rag.calls < MaxIndexCalls
  /\ failing \subseteq 1..Len(content.sentences)
  /\ LET sentences == [k \in 1..Len(content.sentences) |-> [s |-> k, j |-> 0]]
         call == [NoLast EXCEPT !.op = "addContent", !.text = content.text,
                                !.pieces = sentences,
                                !.failed = {sentences[k] : k \in failing}]
     IN IF ~rag.similarityModel
        THEN rag' = [rag EXCEPT !.calls = @ + 1,
                                !.last = [call EXCEPT !.threw = TRUE]]
        ELSE rag' = [rag EXCEPT
               !.chunks = @ \o ChunksOf("", content.text, sentences),
               !.vectorDatabase =
                  IF failing = {}
                  THEN @ \o ChunksOf("", content.text, sentences) ELSE @,
               !.calls = @ + 1,
               !.last = [call EXCEPT
                           !.threw = (failing # {}),
                           !.stored = IF failing = {} THEN sentences ELSE <<>>]]
  /\ UNCHANGED exceptRag

SpecPlain ==
  Init /\ [][\/ Construct("plain", 0)
             \/ LoadSimilarityModel
             \/ \E content \in Contents, failing \in SUBSET (1..MaxSentences) :
                  AddContentPlain(content, failing)]_<<vars, aux>>

\* ================================================ the assembly of a prompt
\* getPrompt tokenizes with the model's tokenizer, which is the engine's.
\* It is taken to count a string as the sum of its parts: a message has its
\* own number of tokens, a speaker prefix ('Human: ', 'AI: ', 'AI:') has
\* asm.prefix tokens, a line break one token; preamble is the number of
\* tokens of `${instructions}\n\nConversation:\n` (with the retrieved
\* context in the versions that add it), at least one.
Sources == {"human", "ai"}
Turns == [source : Sources, tokens : 0..MaxMessageTokens]
Histories == UNION {[1..n -> Turns] : n \in 0..MaxHistory}

PromptInputs ==
  [history : Histories, trainContextSize : 0..MaxContextSize,
   preamble : 1..2, prompt : 0..1, prefix : 1..MaxPrefixTokens]

\* model.tokenize(message).length
tokenizeMessage(turn) == turn.tokens

\* model.tokenize(`${source === 'ai' ? 'AI' : 'Human'}: ${message}\n`).length
tokenizeTurn(in, turn) == in.prefix + turn.tokens + 1

\* model.tokenize(finalPrompt).length + model.tokenize(`Human: ${prompt}\nAI:`).length
tokenizeFrame(in) == in.preamble + (in.prefix + in.prompt + 1 + in.prefix)

\* a walk without the test of the budget
noBudget(in, tokens) == FALSE

\* conversationLength + tokens > model.trainContextSize * 0.75
overBudget(in, tokens) == 4 * tokens > 3 * in.trainContextSize

\* a walk that passes over a turn that does not fit and goes on to the
\* older ones (continue in place of break)
RECURSIVE walkOn(_, _, _, _)
walkOn(in, i, conversation, conversationLength) ==
  IF i = 0
  THEN [conversation |-> conversation, conversationLength |-> conversationLength]
  ELSE IF overBudget(in, conversationLength + tokenizeMessage(in.history[i]))
  THEN walkOn(in, i - 1, conversation, conversationLength)
  ELSE walkOn(in, i - 1, <<in.history[i]>> \o conversation,
              conversationLength + tokenizeTurn(in, in.history[i]))

\* for (let i = history.length - 1; i >= 0; i--): the turns from position i
\* (counted from 1) down to the oldest
RECURSIVE walk(_, _, _, _)
walk(in, i, conversation, conversationLength) ==
  IF i = 0
  THEN [conversation |-> conversation, conversationLength |-> conversationLength]
  ELSE IF overBudget(in, conversationLength + tokenizeMessage(in.history[i]))
  THEN [conversation |-> conversation, conversationLength |-> conversationLength]
  ELSE walk(in, i - 1, <<in.history[i]>> \o conversation,
            conversationLength + tokenizeTurn(in, in.history[i]))

GetPrompt(in) ==
  /\ asm.pc = "idle"
  /\ LET w == walk(in, Len(in.history), <<>>, tokenizeFrame(in)) IN
     asm' = [pc |-> "done", history |-> in.history,
             trainContextSize |-> in.trainContextSize,
             preamble |-> in.preamble, prompt |-> in.prompt,
             prefix |-> in.prefix,
             conversation |-> w.conversation,
             conversationLength |-> w.conversationLength]
  /\ UNCHANGED exceptAsm

\* one call, for every input
NextPrompt == asm.pc = "idle" /\ \E in \in PromptInputs : GetPrompt(in)

SpecPrompt == Init /\ [][NextPrompt]_<<vars, aux>>

(***************************************************************************)
(* the normalisation of an embedding vector                                *)
(***************************************************************************)

\* Components are counted in hundredths, so a sum of squares is counted in
\* ten-thousandths: norm = sqrt(sum / 10000).  A component of the result is
\* value / norm, kept as the pair of value and norm * norm; 0 / 0 is NaN.
normalizeVector(vector) ==
  LET RECURSIVE reduce(_)
      reduce(q) == IF q = <<>> THEN 0 ELSE Head(q) * Head(q) + reduce(Tail(q))
      norm2 == reduce(vector)
      \* Math.abs(norm - 1) < 0.01: 0.99 < norm < 1.01
      unit == 9801 < norm2 /\ norm2 < 10201
  IN IF unit
     THEN [i \in DOMAIN vector |->
             [nan |-> FALSE, value |-> vector[i], norm2 |-> 10000]]
     ELSE [i \in DOMAIN vector |->
             [nan |-> (vector[i] = 0 /\ norm2 = 0), value |-> vector[i],
              norm2 |-> norm2]]

\* getVector: the embedding the engine computed, normalised
GetVector(vector) ==
  /\ vec' = [pc |-> "normalized", vector |-> vector,
             out |-> normalizeVector(vector)]
  /\ UNCHANGED <<vars, cfg, rag, asm, sc>>

SpecVector ==
  Init /\ [][\E vector \in UNION {[1..n -> {-100, 0, 1, 60, 80, 100}] :
                                     n \in 1..MaxDims} :
               GetVector(vector)]_<<vars, aux>>

(***************************************************************************)
(* the variant with one static context for all text models                 *)
(***************************************************************************)

\* processJob / processJobStream up to the first await: the static context
\* is kept when it is of this model; otherwise it is disposed, if there is
\* one, and a new one is created
StaticContext(j, id) ==
  /\ sc.jobs[j].pc \in {"idle", "session"}
  /\ Len(sc.instances) < MaxInstances
  /\ IF sc.context.instance # 0 /\ sc.context.modelId = id
     THEN sc' = [sc EXCEPT !.jobs[j] = [pc |-> "session", id |-> id]]
     ELSE IF sc.context.instance # 0
     THEN \* await context.instance.dispose()
          sc' = [sc EXCEPT !.instances[sc.context.instance].disp = @ + 1,
                           !.jobs[j] = [pc |-> "disposeWait", id |-> id]]
     ELSE \* await model.createContext()
          sc' = [sc EXCEPT !.jobs[j] = [pc |-> "createWait", id |-> id]]
  /\ UNCHANGED <<vars, cfg, rag, asm, vec>>

\* the dispose resolved: await model.createContext()
StaticDisposed(j) ==
  /\ sc.jobs[j].pc = "disposeWait"
  /\ sc' = [sc EXCEPT !.jobs[j].pc = "createWait"]
  /\ UNCHANGED <<vars, cfg, rag, asm, vec>>

\* createContext resolved: context = {modelId, instance}; the session follows
StaticCreated(j) ==
  /\ sc.jobs[j].pc = "createWait"
  /\ Len(sc.instances) < MaxInstances
  /\ sc' = [sc EXCEPT !.instances = Append(@, [modelId |-> sc.jobs[j].id, disp |-> 0]),
                      !.context = [modelId |-> sc.jobs[j].id,
                                   instance |-> Len(sc.instances) + 1],
                      !.jobs[j].pc = "session"]
  /\ UNCHANGED <<vars, cfg, rag, asm, vec>>

SpecStatic ==
  Init /\ [][\E j \in Jobs : \/ \E id \in {"t1", "t2"} : StaticContext(j, id)
                             \/ StaticDisposed(j)
                             \/ StaticCreated(j)]_<<vars, aux>>




\* ================================================================ claims
ClosePcs == {"closeEmbWait", "closeLoop", "closeDisposeWait"}

\* the workflows that reference model id in the registry
Refs(id) == IF models[id].obj = 0 THEN {} ELSE objs[models[id].obj].workflows

\* the handle cached for model id (0: none)
HandleOf(id) == IF models[id].obj = 0 THEN 0 ELSE objs[models[id].obj].model

\* connector c takes a step of its close() in this transition
CloseStep(c) ==
  \/ cpu = c /\ conns[c].pc = "closeLoop"
  \/ cpu = "none" /\ conns[c].pc \in {"idle", "closeDisposeWait"}
       /\ conns'[c].pc \in ClosePcs /\ conns'[c].pc # conns[c].pc

\* C1: a step of a release never deletes the entry of a model, nor disposes
\* its handle, while a workflow other than the released one references the
\* model.
C1_ReleaseKeepsShared ==
  [][\A c \in Conns, id \in ModelIds :
       (/\ CloseStep(c)
        /\ \E w \in Refs(id) : w # conns[c].workflowId)
       => /\ models'[id].obj = models[id].obj
          /\ HandleOf(id) # 0 => handles'[HandleOf(id)].disp = handles[HandleOf(id)].disp]_vars

\* C2: a handle that a release disposed has been disposed exactly once: no
\* later release and no eviction step of a job disposes it again.
C2_ReleasedHandleDisposedOnce ==
  \A h \in 1..MaxHandles : "close" \in handles[h].by => handles[h].disp = 1

\* C3: at most one text model has a loaded (undisposed) handle.
LoadedTextModels ==
  {handles[h].of : h \in {x \in 1..MaxHandles : HandleLive(x) /\ OutputType(handles[x].of) = "text"}}

C3_SingleActiveTextModel == Cardinality(LoadedTextModels) <= 1

\* C4: a job started when no workflow references its model any more (every
\* workflow that registered it has been released, no release is running)
\* throws the model-not-initialized error and touches neither the registry
\* nor the engine.
C4_JobAfterReleaseFails ==
  [][\A j \in Jobs :
       (/\ jobs[j].pc = "idle" /\ jobs'[j].pc # "idle"
        /\ Refs(jobs'[j].id) = {}
        /\ \A c \in Conns : conns[c].pc = "idle")
       => /\ jobs'[j].pc = "done"
          /\ jobs'[j].err = "ModelNotInitialized"
          /\ UNCHANGED <<registry, engine, embeddingContext>>]_vars

\* the handles ever loaded for model id
LoadsOf(id) == {h \in 1..MaxHandles : handles[h].of = id}

\* C5: while a workflow references a text model, its handle has been loaded
\* at most once.  A text model is loaded by jobs only, and only while it has
\* a registry entry; under SpecJobs no workflow is released, so every load
\* counted here happened while the model was referenced.
C5_LoadedOnceWhileReferenced ==
  \A id \in ModelIds :
    OutputType(id) = "text" /\ Refs(id) # {} => Cardinality(LoadsOf(id)) <= 1

\* C6: once the generation of a streaming job has settled (the sentinel was
\* emitted), the pull loop is not parked on the emitter: nothing will ever
\* be emitted again, so a pull parked there never returns.
C6_StreamTerminates ==
  \A j \in Jobs : ~(jobs[j].pc = "streamWait" /\ jobs[j].prod = "ended")

\* C7: a job that ends by throwing has disposed its session and its
\* sequence, and if no sequence of its context is in use any more, the
\* context is disposed and no registry entry caches it.
C7_ReleaseOnError ==
  [][\A j \in Jobs :
       (/\ jobs[j].pc # "done" /\ jobs'[j].pc = "done"
        /\ jobs'[j].result = "throw"
        /\ jobs'[j].context # 0)
       => /\ jobs'[j].session # "live"
          /\ jobs'[j].sequence # "live"
          /\ ctxs'[jobs'[j].context].inUse = 0
             => /\ ctxs'[jobs'[j].context].disp > 0
                /\ \A id \in ModelIds : models'[id].context # jobs'[j].context]_vars

\* the steps of the release of a job: the normal release and the catch block
ReleasePcs == {"release", "releaseWait", "catch", "catchWait"}

\* job k owns a sequence of context c
OwnsSequence(k, c) == jobs[k].context = c /\ jobs[k].sequence = "live"

\* C8: the release step of a job neither disposes a context, nor clears the
\* registry slot that caches it, while another job in flight owns a sequence
\* of that context.
C8_ContextDisposedAfterLastSequence ==
  [][\A j \in Jobs, c \in 1..MaxCtxs :
       (/\ jobs[j].pc \in ReleasePcs /\ jobs'[j] # jobs[j]
        /\ \/ ctxs'[c].disp > ctxs[c].disp
           \/ \E id \in ModelIds : models[id].context = c /\ models'[id].context = 0)
       => \A k \in Jobs \ {j} : ~OwnsSequence(k, c)]_vars

\* C9: a model handle is disposed only after every context created from it,
\* and no handle, context or embedding context is disposed twice.
C9_DisposalOrder ==
  /\ \A c \in 1..MaxCtxs :
       ctxs[c].handle # 0 /\ ctxs[c].disp = 0 => handles[ctxs[c].handle].disp = 0
  /\ \A h \in 1..MaxHandles : handles[h].disp <= 1
  /\ \A c \in 1..MaxCtxs : ctxs[c].disp <= 1
  /\ \A e \in 1..MaxEmbs : embs[e].disp <= 1

\* C10: once a release has completed, a vector job for a model that a
\* workflow still references finds an initialized, undisposed embedding
\* context and goes on to embed.
C10_EmbeddingContextKept ==
  [][\A j \in Jobs :
       (/\ cpu = j /\ jobs[j].pc = "branch"
        /\ jobs[j].kind = "sync" /\ OutputType(jobs[j].id) = "vector"
        /\ calls.closes > 0 /\ \A c \in Conns : conns[c].pc \notin ClosePcs
        /\ Refs(jobs[j].id) # {})
       => /\ jobs'[j].pc = "embedWait"
          /\ EmbLive(embeddingContext)]_vars

\* C11: a streaming job for a registered vector model throws the
\* unsupported-operation error, and no step of it loads, evicts, creates or
\* disposes anything.
C11_VectorStreamFails ==
  [][\A j \in Jobs :
       (/\ jobs'[j] # jobs[j] /\ jobs[j].pc \in {"idle", "branch"}
        /\ jobs'[j].kind = "stream" /\ OutputType(jobs'[j].id) = "vector"
        /\ getModel(jobs'[j].id) # 0)
       => /\ UNCHANGED <<registry, engine, embeddingContext>>
          /\ jobs'[j].pc \in {"branch", "done"}
          /\ jobs'[j].pc = "done"
             => jobs'[j].result = "throw" /\ jobs'[j].err = "UnsupportedOperation"]_vars

C11_Witness ==
  \E j \in Jobs :
    /\ jobs[j].pc = "done" /\ jobs[j].kind = "stream" /\ jobs[j].id = "v"
    /\ jobs[j].err = "UnsupportedOperation"
    /\ HandleOf("v") # 0

\* C12: no generation call is handed both a function set and a grammar.
C12_FunctionsOrGrammar ==
  cfg.call # "" => ~(cfg.sent.functions > 0 /\ cfg.sent.grammar # "")

\* C13: when engine.loadModel rejects, in initialize or in a job, the call
\* ends by throwing, the model file is gone, and no registry entry holds a
\* handle for the model.
C13_LoadFailureCleansUp ==
  [][/\ \A c \in Conns :
          conns[c].pc = "initLoadWait" /\ conns'[c].pc = "idle"
          => LET id == conns[c].maps[conns[c].idx] IN
               /\ conns'[c].err = "Error"
               /\ id \notin files'
               /\ models'[id].obj = 0 \/ objs'[models'[id].obj].model = 0
     /\ \A j \in Jobs :
          jobs[j].pc = "loadWait" /\ jobs'[j].pc = "done"
          => LET id == jobs[j].id IN
               /\ jobs'[j].result = "throw"
               /\ id \notin files'
               /\ models'[id].obj = 0 \/ objs'[models'[id].obj].model = 0]_vars

\* what a close() of connector c would do from this state: it disposes the
\* static embedding context when there is one, removes its workflow from
\* the sets that hold it, and deletes the entries whose set is then empty
CloseHasEffect(c) ==
  \/ embeddingContext # 0
  \/ \E id \in ModelIds :
       /\ models[id].obj # 0
       /\ \/ conns[c].workflowId \in Refs(id)
          \/ Refs(id) \ {conns[c].workflowId} = {}

\* C14: a close() of a connector that never registered changes nothing, and
\* when a close() returns it has left nothing for a second close() of the
\* same connector to dispose, remove or delete.
C14_CloseIdempotent ==
  [][\A c \in Conns :
       /\ (conns[c].workflowId = "" /\ conns[c].pc = "idle"
             /\ calls'.closes > calls.closes
             /\ \A d \in Conns \ {c} : conns'[d] = conns[d])
          => UNCHANGED <<registry, engine, embeddingContext>>
       /\ (conns[c].pc \in ClosePcs /\ conns'[c].pc = "idle")
          => ~CloseHasEffect(c)']_vars

\* C15: when initialize reaches a model that its workflow already
\* references, the step leaves the registry (one entry, the same reference
\* set, handle and cached context) and the engine as they were: nothing is
\* loaded.
C15_RegisterIdempotent ==
  [][\A c \in Conns :
       (/\ cpu = c /\ conns[c].pc = "initLoop"
        /\ conns[c].idx <= Len(conns[c].maps)
        /\ WorkflowOf(c) \in Refs(conns[c].maps[conns[c].idx]))
       => /\ UNCHANGED <<registry, engine, embeddingContext>>
          /\ conns'[c].idx = conns[c].idx + 1]_vars

C15_Witness ==
  /\ cpu = "c1" /\ conns["c1"].pc = "initLoop"
  /\ conns["c1"].maps = <<"t1">> /\ conns["c1"].idx = 2
  /\ calls.inits = 2 /\ calls.closes = 0
  /\ Refs("t1") = {"w1"}
  /\ order = <<"t1">>
  /\ models["t1"].context # 0 /\ HandleOf("t1") # 0

\* C16: when addContent(name, X) is followed immediately by
\* addContent(name, Y), both storing at least one chunk, no chunk and no
\* vector derived from X remains under that name (replace, not union).
C16_ReplaceNotUnion ==
  [][(/\ rag.last.op = "addContent" /\ rag.last.stored # <<>>
      /\ rag'.calls = rag.calls + 1
      /\ rag'.last.op = "addContent" /\ rag'.last.stored # <<>>
      /\ rag'.last.name = rag.last.name
      /\ rag'.last.text # rag.last.text)
     => /\ \A k \in 1..Len(rag'.chunks) :
             ~(rag'.chunks[k].name = rag.last.name
                 /\ rag'.chunks[k].text = rag.last.text)
        /\ \A k \in 1..Len(rag'.vectorDatabase) :
             ~(rag'.vectorDatabase[k].name = rag.last.name
                 /\ rag'.vectorDatabase[k].text = rag.last.text)]_<<vars, aux>>

\* C17: after any sequence of addContent and removeContent calls, the range
\* of every remaining document lies within the chunk sequence, is disjoint
\* from the ranges of the other documents, and designates exactly the chunks
\* derived from that document; the vector index holds the same chunks.
C17_RangesConsistent ==
  /\ rag.vectorDatabase = rag.chunks
  /\ \A k \in 1..Len(rag.documents) :
       LET document == rag.documents[k] IN
       /\ 0 <= document.startIndex
       /\ document.startIndex + document.length <= Len(rag.chunks)
       /\ \A m \in 1..Len(rag.documents) :
            m # k => \A i \in 0..(Len(rag.chunks) - 1) :
                       ~(/\ document.startIndex <= i
                         /\ i < document.startIndex + document.length
                         /\ rag.documents[m].startIndex <= i
                         /\ i < rag.documents[m].startIndex + rag.documents[m].length)
       /\ \A i \in 0..(Len(rag.chunks) - 1) :
            (rag.chunks[i + 1].name = document.name)
              <=> (document.startIndex <= i
                     /\ i < document.startIndex + document.length)

\* C18: right after an addContent that stored at least one chunk, the new
\* document record spans the chunks that call appended: startIndex is the
\* index of the first chunk appended, length the number of chunks appended.
C18_RecordSpansAppended ==
  (rag.last.op = "addContent" /\ rag.last.stored # <<>>)
    => LET document == rag.documents[Len(rag.documents)] IN
       /\ document.name = rag.last.name
       /\ document.length = Len(rag.last.stored)
       /\ document.startIndex = Len(rag.chunks) - Len(rag.last.stored)
       /\ SubSeq(rag.chunks, Len(rag.chunks) - Len(rag.last.stored) + 1,
                 Len(rag.chunks))
            = ChunksOf(rag.last.name, rag.last.text, rag.last.stored)

\* C19: when the engine fails to embed one chunk during addContent, the call
\* does not throw, the failing chunk is not stored, and every other chunk of
\* the content, those after the failing one included, is stored and inserted.
C19_FailedChunkSkipped ==
  (rag.last.op = "addContent" /\ rag.similarityModel
     /\ Cardinality(rag.last.failed) = 1)
    => LET others == SelectSeq(rag.last.pieces,
                               LAMBDA p : p \notin rag.last.failed) IN
       /\ ~rag.last.threw
       /\ rag.last.stored = others
       /\ \A k \in 1..Len(others) :
            \E i \in 1..Len(rag.chunks) :
              /\ rag.chunks[i] = ChunkOf(rag.last.name, rag.last.text, others[k])
              /\ rag.vectorDatabase[i] = rag.chunks[i]

\* C20: for a hit index i the window getContext builds is a contiguous run
\* of at most maxChunks chunks around i, inside [0, chunkCount); it contains
\* chunk i, and no chunk away from i is selected by a negative start index.
C20_WindowAroundHit ==
  (rag.last.op = "getContext" /\ ~rag.last.threw /\ rag.last.hit >= 0)
    => LET window == rag.last.window
           i      == rag.last.hit
           half   == rag.last.maxChunks \div 2
       IN /\ \E k \in 1..Len(window) : window[k] = i
          /\ Len(window) <= rag.last.maxChunks
          /\ \A k \in 1..Len(window) :
               /\ 0 <= window[k] /\ window[k] < Len(rag.chunks)
               /\ i - half <= window[k] /\ window[k] <= i + half
               /\ k > 1 => window[k] = window[k - 1] + 1

\* C21: a window getContext returns holds chunks of one document only, and
\* its name prefix, when there is one, names the document every chunk of the
\* window is derived from.
C21_WindowOfOneDocument ==
  (rag.last.op = "getContext" /\ ~rag.last.threw /\ rag.last.hit >= 0)
    => \A k \in 1..Len(rag.last.window) :
         LET chunk == rag.chunks[rag.last.window[k] + 1] IN
         /\ rag.last.from # "" => chunk.name = rag.last.from
         /\ \A m \in 1..Len(rag.last.window) :
              rag.chunks[rag.last.window[m] + 1].name = chunk.name

\* the tokens of the turns of q, each serialized with its speaker prefix
RECURSIVE SerializedTokens(_, _)
SerializedTokens(in, q) ==
  IF q = <<>> THEN 0
  ELSE tokenizeTurn(in, Head(q)) + SerializedTokens(in, Tail(q))

\* C22: the turns of the history included in the assembled prompt, each
\* counted as serialized with its speaker prefix, hold at most 75% of
\* model.trainContextSize tokens.
C22_HistoryWithinBudget ==
  asm.pc = "done"
    => 4 * SerializedTokens(asm, asm.conversation) <= 3 * asm.trainContextSize

\* two turns were included and the oldest dropped, and the running count
\* conversationLength, which holds the frame of the prompt as well, has
\* passed the budget
C22_Witness ==
  /\ asm.pc = "done"
  /\ Len(asm.conversation) = 2
  /\ Len(asm.history) = 3
  /\ asm.conversationLength
       = tokenizeFrame(asm) + SerializedTokens(asm, asm.conversation)
  /\ 4 * asm.conversationLength > 3 * asm.trainContextSize

Generated == cfg.pc \in {"done", "hung"} /\ ~cfg.rejected

\* C24: with the reasoning flag a job issues one first reasoning generation,
\* then a refinement seeded with the first text if and only if that text is
\* shorter than 500 characters, then one final generation whose prompt is
\* the wrapped reasoning followed by the prompt; without the flag the
\* session is invoked once.
C24_ReasoningPasses ==
  LET cs == cfg.calls
      n  == Len(cs)
  IN IF cfg.reasoning
     THEN /\ n <= 3
          /\ n >= 1 => cs[1].pass = "reasoning" /\ cs[1].seed = <<>>
          /\ n >= 2 =>
               IF length(cs[1].response) < 500
               THEN cs[2].pass = "refine" /\ cs[2].seed = cs[1].response
               ELSE /\ cs[2].pass = "final" /\ n = 2
                    /\ cs[2].prompt = wrapped(cs[1].response) \o <<Piece("prompt")>>
          /\ n = 3 =>
               /\ cs[3].pass = "final"
               /\ cs[3].prompt = wrapped(cs[1].response \o cs[2].response)
                                   \o <<Piece("prompt")>>
          /\ Generated => cs[n].pass = "final"
     ELSE /\ n <= 1
          /\ n = 1 => cs[1].pass = "final" /\ cs[1].prompt = <<Piece("prompt")>>
          /\ Generated => n = 1

\* a streamed job that reasoned in two passes and went on to the final one
C24_Witness ==
  /\ Generated /\ cfg.reasoning /\ cfg.kind = "stream"
  /\ Len(cfg.calls) = 3
  /\ length(cfg.calls[1].response) > 0

\* C25: with the reasoning flag the visible output of a job that ended
\* (the sync result, the chunks the stream yielded) begins with the opening
\* delimiter, once, then holds the reasoning text, then the closing
\* delimiter, once, and only then the final answer.
C25_ReasoningPrefix ==
  (cfg.pc = "done" /\ ~cfg.rejected /\ cfg.reasoning)
    => LET out == cfg.output IN
       /\ Len(out) >= 2
       /\ out[1].kind = "open"
       /\ Cardinality({k \in 1..Len(out) : out[k].kind = "open"}) = 1
       /\ Cardinality({k \in 1..Len(out) : out[k].kind = "close"}) = 1
       /\ \A k, m \in 1..Len(out) :
            /\ (out[k].kind = "text" /\ out[k].pass # "final" /\ out[m].kind = "close")
                 => k < m
            /\ (out[k].kind = "text" /\ out[k].pass = "final" /\ out[m].kind = "close")
                 => m < k

\* C26: a vector job for model id computes its embedding with the embedding
\* context created from the handle the registry holds for id, and at most
\* one embedding context is live at a time.
C26_EmbeddingContextOfModel ==
  [][/\ \A j \in Jobs :
          (jobs[j].pc = "branch" /\ jobs'[j].pc = "embedWait")
            => embs[jobs'[j].emb].handle = HandleOf(jobs[j].id)
     /\ Cardinality({e \in 1..MaxEmbs : EmbLive(e)'}) <= 1]_vars

\* C27: a sync text job returns token counts equal to what its sequence's
\* meter gained from its first generation call to its last: non-negative,
\* the tokens of every call of the job, and none of another job.
C27_TokenCounts ==
  LET RECURSIVE UsedBy(_)
      \* the tokens of the generation calls the job made
      UsedBy(cs) ==
        IF cs = <<>> THEN NoCfg.meter
        ELSE metered(UsedBy(Tail(cs)), Head(cs).seed \o Head(cs).prompt,
                     Head(cs).response)
  IN (cfg.kind = "sync" /\ cfg.pc = "done")
       => /\ cfg.result = UsedBy(cfg.calls)
          /\ cfg.result.usedInputTokens
               = cfg.meter.usedInputTokens - cfg.starting.usedInputTokens
          /\ cfg.result.usedOutputTokens
               = cfg.meter.usedOutputTokens - cfg.starting.usedOutputTokens
          /\ cfg.result.usedInputTokens >= 0
          /\ cfg.result.usedOutputTokens >= 0

\* a sync job that reasoned in two passes while another job generated
C27_Witness ==
  /\ cfg.kind = "sync" /\ cfg.pc = "done"
  /\ Len(cfg.calls) = 3
  /\ cfg.result.usedOutputTokens > 0
  /\ cfg.others.usedOutputTokens > 0

\* C28: normalizing a vector never yields a NaN component, whether the
\* vector is all zero, has unit norm already, or neither.
C28_NeverNaN ==
  vec.pc = "normalized" => \A i \in DOMAIN vec.out : ~vec.out[i].nan

\* C29: when a register call that found no entry for a model id completes
\* its registration after the other connector's call registered the same id
\* meanwhile (no release and no job has run), the entry's reference set holds
\* both workflow ids, every loaded handle of the model is the one the entry
\* holds, and a vector model has exactly that one handle loaded.
C29_InterleavedRegister ==
  [][\A c \in Conns : \A d \in Conns \ {c} :
       (/\ conns[c].pc \in {"initLoad", "initLoadWait", "initEmbWait"}
        /\ conns'[c].pc = "initLoop"
        /\ calls.closes = 0 /\ calls.jobs = 0
        /\ WorkflowOf(d) \in Refs(conns[c].maps[conns[c].idx]))
       => LET id == conns[c].maps[conns[c].idx]
              entry == objs'[models'[id].obj]
          IN /\ models'[id].obj # 0
             /\ {WorkflowOf(c), WorkflowOf(d)} \subseteq entry.workflows
             /\ \A h \in 1..MaxHandles :
                  (handles'[h].of = id /\ handles'[h].disp = 0)
                    => h = entry.model
             /\ OutputType(id) = "vector"
                  => entry.model # 0 /\ handles'[entry.model].disp = 0]_vars

\* C30: jobs for one model id share one context: at any time at most one
\* undisposed context exists that was created from a handle of that model.
C30_OneContextPerModel ==
  \A id \in ModelIds :
    Cardinality({c \in 1..MaxCtxs :
                   CtxLive(c) /\ handles[ctxs[c].handle].of = id}) <= 1

C32_SingleStaticContext ==
  /\ Cardinality({i \in DOMAIN sc.instances : sc.instances[i].disp = 0}) <= 1
  /\ \A i \in DOMAIN sc.instances : sc.instances[i].disp <= 1

\* C33: the eviction step of a job disposes no handle while another job that
\* acquired this handle has an undisposed sequence or session on a context
\* created from it.
C33_NoEvictionUnderUse ==
  [][\A j \in Jobs : \A h \in 1..MaxHandles :
       (/\ jobs[j].pc = "evict" /\ jobs'[j].pc = "evictWait"
        /\ handles'[h].disp > handles[h].disp)
       => \A k \in Jobs \ {j} :
            ~(/\ jobs[k].model = h
              /\ jobs[k].context # 0
              /\ ctxs[jobs[k].context].handle = h
              /\ jobs[k].sequence = "live" \/ jobs[k].session = "live")]_vars

\* C34: two jobs in flight for the same text model that both hold a loaded
\* handle hold the same one, and it is the handle the registry entry caches:
\* the model was loaded once and no loaded handle is outside the registry.
C34_LoadedOnceByTwoJobs ==
  \A j \in Jobs : \A k \in Jobs \ {j} :
    (/\ jobs[j].pc \notin {"idle", "done"} /\ jobs[k].pc \notin {"idle", "done"}
     /\ jobs[j].id = jobs[k].id /\ OutputType(jobs[j].id) = "text"
     /\ HandleLive(jobs[j].model) /\ HandleLive(jobs[k].model))
    => /\ jobs[j].model = jobs[k].model
       /\ HandleOf(jobs[j].id) = jobs[j].model

\* C35: whenever no job and no connector call is in flight, an entry that
\* caches a context holds a loaded handle, and the cached context is not
\* disposed.
C35_CachedContextIsLive ==
  (/\ \A j \in Jobs : jobs[j].pc \in {"idle", "done"}
   /\ \A c \in Conns : conns[c].pc = "idle")
  => \A id \in ModelIds :
       (models[id].obj # 0 /\ models[id].context # 0)
         => HandleLive(HandleOf(id)) /\ CtxLive(models[id].context)

\* C36: when the generation of a streaming job has ended, the text chunks
\* yielded to the consumer are the text chunks the generation callback
\* pushed, each once and in push order.
C36_EveryChunkYielded ==
  LET RECURSIVE Pushed(_)
      Pushed(cs) ==
        IF cs = <<>> THEN <<>>
        ELSE Head(cs).response \o Pushed(Tail(cs))
      IsText(piece) == piece.kind = "text"
  IN (cfg.kind = "stream" /\ Generated)
       => SelectSeq(cfg.output, IsText) = Pushed(cfg.calls)

\* C37: for the generation calls a job made, the outputs processJobStream
\* yielded, concatenated, are the output processJob returns: the reasoning
\* of the passes before the final one between its delimiters, when reasoning
\* is asked for, then the text of the final call.  (Pieces of empty text
\* add nothing to a string.)
C37_StreamEqualsSync ==
  LET RECURSIVE Thinking(_)
      Thinking(cs) ==
        IF cs = <<>> THEN <<>>
        ELSE (IF Head(cs).pass = "final" THEN <<>> ELSE Head(cs).response)
               \o Thinking(Tail(cs))
      NotEmpty(piece) == piece.kind # "text" \/ piece.len > 0
      returned == (IF cfg.reasoning THEN wrapped(Thinking(cfg.calls)) ELSE <<>>)
                    \o cfg.calls[Len(cfg.calls)].response
  IN (cfg.pc = "done" /\ ~cfg.rejected)
       => SelectSeq(cfg.output, NotEmpty) = SelectSeq(returned, NotEmpty)

\* C38: when the first initialize call ever made throws, the registry is
\* empty as it was before the call, and the connector has kept no workflow
\* id.
C38_FailedInitializeRollsBack ==
  [][\A c \in Conns :
       (/\ conns[c].pc \in InitPcs /\ conns'[c].pc = "idle"
        /\ conns'[c].err = "Error"
        /\ calls.inits = 1)
       => /\ \A id \in ModelIds : models'[id].obj = 0
          /\ conns'[c].workflowId = ""]_vars

\* C39: after any sequence of calls on the index, as many chunks are stored
\* as the vector index holds vectors, and chunk i is the text vector i was
\* made of.
C39_ChunksMatchVectors ==
  /\ Len(rag.chunks) = Len(rag.vectorDatabase)
  /\ \A i \in 1..Len(rag.chunks) : rag.vectorDatabase[i] = rag.chunks[i]

====
